---- MODULE Spec2Model ----
(***************************************************************************)
(* Model of the Flames.Blue e-commerce backend (src/main.py,               *)
(* src/schemas.py): the request handlers, the pydantic request schemas,    *)
(* serialize_doc and the document store the handlers talk to.              *)
(*                                                                         *)
(* Strings that the code takes apart (identifiers, titles, search terms)   *)
(* are sequences of one-character strings.  Floats are integers.  Python's *)
(* None is the value None for an optional field and NoDoc for a missing    *)
(* document.                                                               *)
(***************************************************************************)
EXTENDS Integers, Sequences, FiniteSets, TLC

\* ------------------------------------------------------------------ bounds
\* Concurrent create requests in flight.
MaxClients == 2
\* Records the two collections may hold together under Spec and SpecOps.
MaxDocs == 2
\* Hex digits of a rendered identifier (24 in bson) and the first identifier
\* the generator hands out.
OidWidth == 2
FirstOid == 10

\* main.py:99, min(limit, 200)
MaxLimit == 200
\* main.py:91, limit: int = 100
DefaultLimit == 100

Clients == 1..MaxClients
None == "<None>"
NoDoc == [none |-> TRUE]

\* ------------------------------------------------------------ identifiers
HexLower == <<"0","1","2","3","4","5","6","7","8","9","a","b","c","d","e","f">>
HexUpper == <<"0","1","2","3","4","5","6","7","8","9","A","B","C","D","E","F">>

IsHexChar(ch) == \E i \in 1..16 : HexLower[i] = ch \/ HexUpper[i] = ch
HexValue(ch) == (CHOOSE i \in 1..16 : HexLower[i] = ch \/ HexUpper[i] = ch) - 1

RECURSIVE Pow16(_)
Pow16(n) == IF n = 0 THEN 1 ELSE 16 * Pow16(n - 1)

\* str(ObjectId): the identifier as OidWidth lower-case hex digits.
OidStr(oid) ==
    [i \in 1..OidWidth |-> HexLower[((oid \div Pow16(OidWidth - i)) % 16) + 1]]

\* ObjectId.is_valid(s) for a str: exactly OidWidth hex digits, either case.
OidIsValid(s) == Len(s) = OidWidth /\ \A i \in 1..Len(s) : IsHexChar(s[i])

RECURSIVE OidValue(_)
OidValue(s) ==
    IF Len(s) = 0 THEN 0
    ELSE 16 * OidValue(SubSeq(s, 1, Len(s) - 1)) + HexValue(s[Len(s)])

\* ObjectId(s): [ok, oid]; ok = FALSE is bson.errors.InvalidId.
ObjectId(s) ==
    IF OidIsValid(s) THEN [ok |-> TRUE, oid |-> OidValue(s)]
    ELSE [ok |-> FALSE, oid |-> 0]

\* ------------------------------------------------------------- documents
\* serialize_doc: a copy of the document with "_id" replaced by "id", the
\* identifier rendered as a string; a missing document is returned as is.
serialize_doc(doc) ==
    IF doc = NoDoc THEN doc
    ELSE LET d == doc IN
         IF "_id" \in DOMAIN d
         THEN [k \in (DOMAIN d \ {"_id"}) \cup {"id"} |->
                  IF k = "id" THEN OidStr(d["_id"]) ELSE d[k]]
         ELSE d

Has(body, f) == f \in DOMAIN body
Get(body, f, default) == IF Has(body, f) THEN body[f] ELSE default

\* ---------------------------------------------------------------- schemas
\* ProductIn: title, price and category are required, price >= 0; stock is
\* a plain int.
ValidProductIn_NoPriceCheck(body) ==
    Has(body, "title") /\ Has(body, "price") /\ Has(body, "category")

ValidProductIn(body) ==
    /\ Has(body, "title") /\ Has(body, "price") /\ Has(body, "category")
    /\ body["price"] >= 0

ProductIn_dump_DefaultCurrency(body) ==
    [title        |-> body["title"],
     description  |-> Get(body, "description", None),
     price        |-> body["price"],
     currency     |-> "INR",
     category     |-> body["category"],
     images       |-> Get(body, "images", <<>>),
     materials    |-> Get(body, "materials", <<>>),
     stock        |-> Get(body, "stock", 0),
     vendor       |-> Get(body, "vendor", None),
     artisanStory |-> Get(body, "artisanStory", None)]

\* ProductIn(...).model_dump(): every field, defaults filled in.
ProductIn_dump(body) ==
    [title        |-> body["title"],
     description  |-> Get(body, "description", None),
     price        |-> body["price"],
     currency     |-> Get(body, "currency", "INR"),
     category     |-> body["category"],
     images       |-> Get(body, "images", <<>>),
     materials    |-> Get(body, "materials", <<>>),
     stock        |-> Get(body, "stock", 0),
     vendor       |-> Get(body, "vendor", None),
     artisanStory |-> Get(body, "artisanStory", None)]

ValidOrderItem(item) ==
    /\ Has(item, "productId") /\ Has(item, "title")
    /\ Has(item, "qty") /\ Has(item, "unitPrice")
    /\ item["qty"] >= 1
    /\ item["unitPrice"] >= 0

ValidCustomer(cust) == Has(cust, "name")

\* OrderIn: customer, items, subtotal and total are required; items is a
\* List[OrderItem] with no length constraint.
ValidOrderIn(body) ==
    /\ Has(body, "customer") /\ Has(body, "items")
    /\ Has(body, "subtotal") /\ Has(body, "total")
    /\ ValidCustomer(body["customer"])
    /\ \A i \in 1..Len(body["items"]) : ValidOrderItem(body["items"][i])

Customer_dump(cust) ==
    [name    |-> cust["name"],
     email   |-> Get(cust, "email", None),
     phone   |-> Get(cust, "phone", None),
     address |-> Get(cust, "address", None)]

OrderIn_dump(body) ==
    [customer |-> Customer_dump(body["customer"]),
     items    |-> body["items"],
     subtotal |-> body["subtotal"],
     shipping |-> Get(body, "shipping", 0),
     total    |-> body["total"],
     status   |-> Get(body, "status", "received")]

\* ------------------------------------------------------------------ state
VARIABLES
    db,        \* the store handle of database.py: "None" or "handle"
    storeUp,   \* whether the store answers (FALSE: every store call raises)
    environ,   \* os.environ: DATABASE_URL and DATABASE_NAME, None when unset
    product,   \* db.product: the documents in the store's natural order
    order,     \* db.order
    nextOid,   \* the identifier generator
    req,       \* per client: the create request between its two store calls
    last       \* the response of the request that completed last

vars == <<db, storeUp, environ, product, order, nextOid, req, last>>

Idle == [pc |-> "idle", coll |-> "", body |-> NoDoc, id |-> <<>>, ops |-> 0]

\* A response: the handler, its input, the HTTP status and detail, the body
\* (doc for one record, docs for a list, NoDoc / <<>> otherwise), the
\* identifier create_document returned (creates only) and the number of store
\* calls the request attempted.
Resp(op, arg, status, detail, doc, docs, id, ops) ==
    [op |-> op, arg |-> arg, status |-> status, detail |-> detail,
     doc |-> doc, docs |-> docs, id |-> id, ops |-> ops]

NoResp == Resp("", NoDoc, 0, "", NoDoc, <<>>, <<>>, 0)

\* ------------------------------------------------------------------ store
\* Collection.find_one({"_id": oid}): the first document with that _id.
find_one(coll, oid) ==
    IF \E i \in 1..Len(coll) : coll[i]["_id"] = oid
    THEN coll[CHOOSE i \in 1..Len(coll) :
                 /\ coll[i]["_id"] = oid
                 /\ \A j \in 1..(i - 1) : coll[j]["_id"] # oid]
    ELSE NoDoc

LowerAlpha == <<"a","b","c","d","e","f","g","h","i","j","k","l","m",
                "n","o","p","q","r","s","t","u","v","w","x","y","z">>
UpperAlpha == <<"A","B","C","D","E","F","G","H","I","J","K","L","M",
                "N","O","P","Q","R","S","T","U","V","W","X","Y","Z">>

LowerCh(ch) ==
    IF \E i \in 1..26 : UpperAlpha[i] = ch
    THEN LowerAlpha[CHOOSE i \in 1..26 : UpperAlpha[i] = ch]
    ELSE ch

UpperCh(ch) ==
    IF \E i \in 1..26 : LowerAlpha[i] = ch
    THEN UpperAlpha[CHOOSE i \in 1..26 : LowerAlpha[i] = ch]
    ELSE ch

\* {"$regex": q, "$options": "i"} for a q without metacharacters: q occurs
\* in the title, letter case ignored.
RegexMatchI(q, title) ==
    \E k \in 0..(Len(title) - Len(q)) :
        \A i \in 1..Len(q) : LowerCh(title[k + i]) = LowerCh(q[i])

\* A find() filter: category and title are None when the key is absent.
Matches(doc, flt) ==
    /\ flt.category # None => doc["category"] = flt.category
    /\ flt.title = <<>> \/ RegexMatchI(flt.title, doc["title"])

Min(a, b) == IF a <= b THEN a ELSE b
Abs(n) == IF n < 0 THEN 0 - n ELSE n

\* Cursor.limit(n) as pymongo sends it: 0 is no limit, a negative n asks
\* for |n| documents in a single batch.
CursorLimit(docs, n) ==
    IF n = 0 THEN docs ELSE SubSeq(docs, 1, Min(Abs(n), Len(docs)))

\* Database.list_collection_names(): a collection exists once it holds a
\* document.
list_collection_names ==
    (IF Len(product) > 0 THEN <<"product">> ELSE <<>>)
        \o (IF Len(order) > 0 THEN <<"order">> ELSE <<>>)

\* f"Connected but error: {str(e)[:80]}" for the error a dead store raises.
StoreErrorStatus == "Connected but error: ServerSelectionTimeoutError"

\* database.create_document(collection_name, data): inserts data as one new
\* document under a fresh identifier and returns the identifier as a string;
\* raises when there is no store handle or the store call fails.
create_document(coll, data) ==
    IF db = "None" THEN [raised |-> TRUE, ops |-> 0, docs |-> coll, id |-> <<>>]
    ELSE IF ~storeUp THEN [raised |-> TRUE, ops |-> 1, docs |-> coll, id |-> <<>>]
    ELSE [raised |-> FALSE, ops |-> 1,
          docs |-> Append(coll, [k \in {"_id"} |-> nextOid] @@ data),
          id |-> OidStr(nextOid)]

\* --------------------------------------------------------------- handlers
Truthy(v) == v # None /\ v # ""

\* GET /api/products.  q is a sequence of characters, <<>> for an absent or
\* empty q.
list_products_EmptyIfNoDb(category, q, limit) ==
    LET flt == [category |-> IF Truthy(category) THEN category ELSE None,
                title    |-> q]
        Test(d) == Matches(d, flt)
        items == CursorLimit(SelectSeq(product, Test), Min(limit, MaxLimit))
        arg == [category |-> category, q |-> q, limit |-> limit]
    IN  IF db = "None"
        THEN Resp("list_products", arg, 200, "", NoDoc, <<>>, <<>>, 0)
        ELSE IF ~storeUp
        THEN Resp("list_products", arg, 500, "Internal Server Error",
                  NoDoc, <<>>, <<>>, 1)
        ELSE Resp("list_products", arg, 200, "", NoDoc,
                  [i \in 1..Len(items) |-> serialize_doc(items[i])], <<>>, 1)

list_products(category, q, limit) ==
    LET flt == [category |-> IF Truthy(category) THEN category ELSE None,
                title    |-> q]
        Test(d) == Matches(d, flt)
        items == CursorLimit(SelectSeq(product, Test), Min(limit, MaxLimit))
        arg == [category |-> category, q |-> q, limit |-> limit]
    IN  IF db = "None"
        THEN Resp("list_products", arg, 500, "Database not configured",
                  NoDoc, <<>>, <<>>, 0)
        ELSE IF ~storeUp
        THEN Resp("list_products", arg, 500, "Internal Server Error",
                  NoDoc, <<>>, <<>>, 1)
        ELSE Resp("list_products", arg, 200, "", NoDoc,
                  [i \in 1..Len(items) |-> serialize_doc(items[i])], <<>>, 1)

\* GET /api/products/{product_id}.  ObjectId(product_id) raising and
\* find_one raising are both caught and leave obj = None.
get_product_TellsMalformed(product_id) ==
    LET parsed == ObjectId(product_id)
        obj == IF parsed.ok /\ storeUp THEN find_one(product, parsed.oid)
               ELSE NoDoc
        ops == IF parsed.ok THEN 1 ELSE 0
    IN  IF db = "None"
        THEN Resp("get_product", product_id, 500, "Database not configured",
                  NoDoc, <<>>, <<>>, 0)
        ELSE IF ~parsed.ok
        THEN Resp("get_product", product_id, 404, "Invalid product id",
                  NoDoc, <<>>, <<>>, ops)
        ELSE IF obj = NoDoc
        THEN Resp("get_product", product_id, 404, "Product not found",
                  NoDoc, <<>>, <<>>, ops)
        ELSE Resp("get_product", product_id, 200, "", serialize_doc(obj),
                  <<>>, <<>>, ops)

get_product(product_id) ==
    LET parsed == ObjectId(product_id)
        obj == IF parsed.ok /\ storeUp THEN find_one(product, parsed.oid)
               ELSE NoDoc
        ops == IF parsed.ok THEN 1 ELSE 0
    IN  IF db = "None"
        THEN Resp("get_product", product_id, 500, "Database not configured",
                  NoDoc, <<>>, <<>>, 0)
        ELSE IF obj = NoDoc
        THEN Resp("get_product", product_id, 404, "Product not found",
                  NoDoc, <<>>, <<>>, ops)
        ELSE Resp("get_product", product_id, 200, "", serialize_doc(obj),
                  <<>>, <<>>, ops)

\* GET /test: the status object for environment env.
StatusObject(env) ==
    LET base == [backend           |-> "Running",
                 database          |-> "Not Available",
                 database_url      |-> None,
                 database_name     |-> None,
                 connection_status |-> "Not Connected",
                 collections       |-> <<>>]
        withEnv == [base EXCEPT
                      !.database = "Available",
                      !.database_url =
                          IF Truthy(env.DATABASE_URL) THEN "Set" ELSE "Not Set",
                      !.database_name =
                          IF Truthy(env.DATABASE_NAME) THEN env.DATABASE_NAME
                          ELSE "Not Set"]
    IN  IF db = "None"
        THEN [base EXCEPT !.database = "Database not initialized"]
        ELSE IF storeUp
        THEN [withEnv EXCEPT
                !.collections = list_collection_names,
                !.database = "Connected & Working",
                !.connection_status = "Connected"]
        ELSE [withEnv EXCEPT !.database = StoreErrorStatus]

test_database_Propagates ==
    IF db # "None" /\ ~storeUp
    THEN Resp("test_database", NoDoc, 500, "Internal Server Error",
              NoDoc, <<>>, <<>>, 1)
    ELSE Resp("test_database", NoDoc, 200, "", StatusObject(environ), <<>>, <<>>,
              IF db = "None" THEN 0 ELSE 1)

test_database ==
    Resp("test_database", NoDoc, 200, "", StatusObject(environ), <<>>, <<>>,
         IF db = "None" THEN 0 ELSE 1)

\* ----------------------------------------------------------------- inputs
PotTitle == <<"P","o","t">>
RugTitle == <<"R","u","g">>

PotBody == [title |-> PotTitle, price |-> 250, category |-> "pottery"]

RugBody ==
    [title |-> RugTitle, description |-> "handwoven", price |-> 0,
     currency |-> "USD", category |-> "textile", images |-> <<"http://img/1">>,
     materials |-> <<"wool">>, stock |-> 3, vendor |-> "Loom", artisanStory |-> "story"]

NegativePriceBody == [title |-> PotTitle, price |-> 0 - 1, category |-> "pottery"]

NegativeStockBody ==
    [title |-> PotTitle, price |-> 250, category |-> "pottery", stock |-> 0 - 5]

ProductBodies ==
    { PotBody, RugBody, NegativePriceBody, NegativeStockBody,
      [price |-> 10, category |-> "pottery"] }

PotItem == [productId |-> "p1", title |-> "Pot", qty |-> 1, unitPrice |-> 250]

OrderBody(cust, items) ==
    [customer |-> cust, items |-> items, subtotal |-> 250, total |-> 250]

PotOrder == OrderBody([name |-> "Asha"], <<PotItem>>)
EmptyOrder == OrderBody([name |-> "Asha"], <<>>)

OrderBodies ==
    { PotOrder,
      EmptyOrder,
      OrderBody([name |-> "Asha"], <<PotItem, [PotItem EXCEPT !.qty = 0]>>),
      OrderBody([email |-> "a@b.in"], <<[PotItem EXCEPT !.unitPrice = 0 - 1]>>) }

\* Identifier strings a client may send: the identifiers the generator can
\* hand out, in either letter case, and malformed ones.
UpperStr(s) == [i \in 1..Len(s) |-> UpperCh(s[i])]

IdInputs ==
    LET first == OidStr(FirstOid)
    IN  { first, OidStr(FirstOid + 1), OidStr(FirstOid + MaxDocs),
          UpperStr(first),
          SubSeq(first, 1, OidWidth - 1),
          [first EXCEPT ![1] = "g"] }

ListInput(category, q, limit) == [category |-> category, q |-> q, limit |-> limit]

ListInputs ==
    { ListInput(None, <<>>, DefaultLimit),
      ListInput("pottery", <<>>, 1),
      ListInput("", <<"p","O">>, MaxLimit + 1),
      ListInput("textile", <<"x">>, 0),
      ListInput(None, <<"u">>, 0 - 1) }

\* ---------------------------------------------------------------- actions
\* POST /api/products up to and including create_document; an invalid body
\* is answered 422 by the framework and the handler is not entered.
CreateProductCall(c, body, cap) ==
    /\ req[c].pc = "idle"
    /\ ValidProductIn(body) /\ db # "None" /\ storeUp => Len(product) + Len(order) < cap
    /\ IF ~ValidProductIn(body)
       THEN /\ last' = Resp("create_product", body, 422, "validation error",
                            NoDoc, <<>>, <<>>, 0)
            /\ UNCHANGED <<product, nextOid, req>>
       ELSE LET r == create_document(product, ProductIn_dump(body))
            IN  IF r.raised
                THEN /\ last' = Resp("create_product", body, 500,
                                     "Internal Server Error", NoDoc, <<>>, <<>>, r.ops)
                     /\ UNCHANGED <<product, nextOid, req>>
                ELSE /\ product' = r.docs
                     /\ nextOid' = nextOid + 1
                     /\ req' = [req EXCEPT ![c] =
                                  [pc |-> "created", coll |-> "product",
                                   body |-> body, id |-> r.id, ops |-> r.ops]]
                     /\ UNCHANGED last
    /\ UNCHANGED <<db, storeUp, environ, order>>

\* POST /api/products from find_one on: the stored record is read back by
\* the returned identifier and serialized.
CreateProductRead_ByTitle(c) ==
    /\ req[c].pc = "created" /\ req[c].coll = "product"
    /\ IF ~storeUp
       THEN last' = Resp("create_product", req[c].body, 500, "Internal Server Error",
                         NoDoc, <<>>, req[c].id, req[c].ops + 1)
       ELSE LET i == CHOOSE i \in 1..Len(product) :
                        /\ product[i]["title"] = req[c].body["title"]
                        /\ \A j \in 1..(i - 1) :
                               product[j]["title"] # req[c].body["title"]
            IN  last' = Resp("create_product", req[c].body, 200, "",
                             serialize_doc(product[i]), <<>>, req[c].id,
                             req[c].ops + 1)
    /\ req' = [req EXCEPT ![c] = Idle]
    /\ UNCHANGED <<db, storeUp, environ, product, order, nextOid>>

CreateProductRead(c) ==
    /\ req[c].pc = "created" /\ req[c].coll = "product"
    /\ IF ~storeUp
       THEN last' = Resp("create_product", req[c].body, 500, "Internal Server Error",
                         NoDoc, <<>>, req[c].id, req[c].ops + 1)
       ELSE LET obj == find_one(product, ObjectId(req[c].id).oid)
            IN  last' = Resp("create_product", req[c].body, 200, "",
                             serialize_doc(obj), <<>>, req[c].id, req[c].ops + 1)
    /\ req' = [req EXCEPT ![c] = Idle]
    /\ UNCHANGED <<db, storeUp, environ, product, order, nextOid>>

\* POST /api/orders, the same two steps on db.order.
CreateOrderCall(c, body, cap) ==
    /\ req[c].pc = "idle"
    /\ ValidOrderIn(body) /\ db # "None" /\ storeUp => Len(product) + Len(order) < cap
    /\ IF ~ValidOrderIn(body)
       THEN /\ last' = Resp("create_order", body, 422, "validation error",
                            NoDoc, <<>>, <<>>, 0)
            /\ UNCHANGED <<order, nextOid, req>>
       ELSE LET r == create_document(order, OrderIn_dump(body))
            IN  IF r.raised
                THEN /\ last' = Resp("create_order", body, 500,
                                     "Internal Server Error", NoDoc, <<>>, <<>>, r.ops)
                     /\ UNCHANGED <<order, nextOid, req>>
                ELSE /\ order' = r.docs
                     /\ nextOid' = nextOid + 1
                     /\ req' = [req EXCEPT ![c] =
                                  [pc |-> "created", coll |-> "order",
                                   body |-> body, id |-> r.id, ops |-> r.ops]]
                     /\ UNCHANGED last
    /\ UNCHANGED <<db, storeUp, environ, product>>

CreateOrderRead(c) ==
    /\ req[c].pc = "created" /\ req[c].coll = "order"
    /\ IF ~storeUp
       THEN last' = Resp("create_order", req[c].body, 500, "Internal Server Error",
                         NoDoc, <<>>, req[c].id, req[c].ops + 1)
       ELSE LET obj == find_one(order, ObjectId(req[c].id).oid)
            IN  last' = Resp("create_order", req[c].body, 200, "",
                             serialize_doc(obj), <<>>, req[c].id, req[c].ops + 1)
    /\ req' = [req EXCEPT ![c] = Idle]
    /\ UNCHANGED <<db, storeUp, environ, product, order, nextOid>>

ListProducts(in) ==
    /\ last' = list_products(in.category, in.q, in.limit)
    /\ UNCHANGED <<db, storeUp, environ, product, order, nextOid, req>>

GetProduct(product_id) ==
    /\ last' = get_product(product_id)
    /\ UNCHANGED <<db, storeUp, environ, product, order, nextOid, req>>

TestDatabase ==
    /\ last' = test_database
    /\ UNCHANGED <<db, storeUp, environ, product, order, nextOid, req>>

\* The store becoming unreachable and reachable again.
StoreFails ==
    /\ db # "None" /\ storeUp
    /\ storeUp' = FALSE
    /\ UNCHANGED <<db, environ, product, order, nextOid, req, last>>

StoreRecovers ==
    /\ ~storeUp
    /\ storeUp' = TRUE
    /\ UNCHANGED <<db, environ, product, order, nextOid, req, last>>

\* --------------------------------------------------------- specifications
DefaultEnv == [DATABASE_URL |-> "mongodb://h1", DATABASE_NAME |-> "shop"]

Environs ==
    [DATABASE_URL : {None, "mongodb://h1", "mongodb://h2"},
     DATABASE_NAME : {None, "shop", "test"}]

InitStore ==
    /\ storeUp = TRUE
    /\ product = <<>>
    /\ order = <<>>
    /\ nextOid = FirstOid
    /\ req = [c \in Clients |-> Idle]
    /\ last = NoResp

\* The service with its store configured and reachable.
Init == db = "handle" /\ environ = DefaultEnv /\ InitStore

Next ==
    \/ \E c \in Clients, body \in ProductBodies : CreateProductCall(c, body, MaxDocs)
    \/ \E c \in Clients : CreateProductRead(c)
    \/ \E c \in Clients, body \in OrderBodies : CreateOrderCall(c, body, MaxDocs)
    \/ \E c \in Clients : CreateOrderRead(c)
    \/ \E in \in ListInputs : ListProducts(in)
    \/ \E id \in IdInputs : GetProduct(id)

Spec == Init /\ [][Next]_vars

\* The service in every store condition: the handle missing or present, the
\* store failing and recovering, any environment.
\* database.py opens the handle from DATABASE_URL and DATABASE_NAME: there is
\* a handle only when both are set, and none when the connection was never
\* established.
InitOps ==
    /\ environ \in Environs
    /\ db \in (IF Truthy(environ.DATABASE_URL) /\ Truthy(environ.DATABASE_NAME)
               THEN {"None", "handle"} ELSE {"None"})
    /\ InitStore

NextOps ==
    \/ \E c \in Clients, body \in {PotBody, NegativePriceBody} :
          CreateProductCall(c, body, MaxDocs)
    \/ \E c \in Clients : CreateProductRead(c)
    \/ \E c \in Clients, body \in {PotOrder, EmptyOrder} :
          CreateOrderCall(c, body, MaxDocs)
    \/ \E c \in Clients : CreateOrderRead(c)
    \/ ListProducts(ListInput(None, <<>>, DefaultLimit))
    \/ \E id \in {OidStr(FirstOid), <<>>} : GetProduct(id)
    \/ TestDatabase
    \/ StoreFails
    \/ StoreRecovers

SpecOps == InitOps /\ [][NextOps]_vars

\* One client filling the catalogue past the list limit.
BulkCap == MaxLimit + 2

BulkListInputs ==
    { ListInput(None, <<>>, DefaultLimit),
      ListInput(None, <<>>, 500),
      ListInput("pottery", <<"o","T">>, MaxLimit + 1),
      ListInput("textile", <<>>, MaxLimit),
      ListInput(None, <<>>, 0),
      ListInput(None, <<>>, 0 - (MaxLimit + 1)) }

NextBulk ==
    \/ CreateProductCall(1, PotBody, BulkCap)
    \/ CreateProductRead(1)
    \/ \E in \in BulkListInputs : ListProducts(in)

SpecBulk == Init /\ [][NextBulk]_vars

\* ----------------------------------------------------------------- claims
Coll(name) == IF name = "product" THEN product ELSE order

Dump(op, body) ==
    IF op = "create_product" THEN ProductIn_dump(body) ELSE OrderIn_dump(body)

IsCreate(r) == r.op \in {"create_product", "create_order"}

CollOf(op) == IF op = "create_product" THEN product ELSE order

\* The stored document a create request with this body and identifier made.
Stored(op, body, id) == [k \in {"_id"} |-> OidValue(id)] @@ Dump(op, body)

Count(coll, id) == Cardinality({i \in 1..Len(coll) : OidStr(coll[i]["_id"]) = id})

C1State ==
    /\ LET all == [i \in 1..(Len(product) + Len(order)) |->
                      IF i <= Len(product) THEN product[i]["_id"]
                      ELSE order[i - Len(product)]["_id"]]
       IN  \A i, j \in 1..Len(all) : i # j => all[i] # all[j]
    /\ \A c \in Clients :
          req[c].pc = "created" =>
             /\ Count(Coll(req[c].coll), req[c].id) = 1
             /\ \A d \in Clients \ {c} : req[d].pc = "created" => req[d].id # req[c].id
    /\ IsCreate(last) /\ last.status # 422 =>
          /\ last.status = 200
          /\ last.doc = serialize_doc(Stored(last.op, last.arg, last.id))
          /\ last.doc["id"] = last.id
          /\ Count(CollOf(last.op), last.id) = 1
          /\ \E i \in 1..Len(CollOf(last.op)) :
                 CollOf(last.op)[i] = Stored(last.op, last.arg, last.id)

C1Step ==
    \A c \in Clients :
       /\ req[c].pc = "idle" /\ req'[c].pc = "created" =>
             LET rec == Stored(IF req'[c].coll = "product" THEN "create_product"
                               ELSE "create_order", req'[c].body, req'[c].id)
             IN  /\ \A i \in 1..Len(product) : product[i]["_id"] # rec["_id"]
                 /\ \A i \in 1..Len(order) : order[i]["_id"] # rec["_id"]
                 /\ IF req'[c].coll = "product"
                    THEN product' = Append(product, rec) /\ order' = order
                    ELSE order' = Append(order, rec) /\ product' = product
       /\ req[c].pc = "created" /\ req'[c].pc = "idle" =>
             /\ product' = product /\ order' = order
             /\ IsCreate(last') /\ last'.status = 200
             /\ last'.id = req[c].id /\ last'.arg = req[c].body

\* C1: under any interleaving of create-product and create-order requests
\* with valid payloads, each request appends exactly one record to its own
\* collection, all identifiers in the store are pairwise distinct, and the
\* response of a request is the serialized record that this request stored.
C1Thm == []C1State /\ [][C1Step]_vars

\* Two product requests with the same payload overlap: the first to insert
\* is answered while the second, already inserted, is still in flight.
C1Witness ==
    /\ Len(product) = 2
    /\ product[1]["title"] = product[2]["title"]
    /\ product[1]["price"] = product[2]["price"]
    /\ last.op = "create_product" /\ last.status = 200
    /\ last.id = OidStr(product[1]["_id"])
    /\ \E c \in Clients : req[c].pc = "created" /\ req[c].id = OidStr(product[2]["_id"])

\* C2: after a successful create-product, get-product with the returned id
\* answers 200 with a non-empty string id equal to the returned one and
\* every submitted field equal to the payload's, whatever else was created
\* before or since; get-product of any stored record returns that record.
C2Thm ==
    /\ last.op = "create_product" /\ last.status = 200 =>
          /\ last.doc # NoDoc
          /\ LET g == get_product(last.doc["id"])
             IN  /\ g.status = 200
                 /\ g.doc["id"] = last.doc["id"]
                 /\ Len(g.doc["id"]) > 0
                 /\ \A f \in DOMAIN last.arg : g.doc[f] = last.arg[f]
    /\ \A i \in 1..Len(product) :
          LET g == get_product(OidStr(product[i]["_id"]))
          IN  g.status = 200 /\ g.doc = serialize_doc(product[i])

C2Witness ==
    /\ last.op = "create_product" /\ last.status = 200
    /\ last.arg = RugBody
    /\ Len(product) = 2
    /\ last.id = OidStr(product[1]["_id"])

\* C3: list-products never returns more than MaxLimit (200) records,
\* whatever limit was requested.
C3Claim == last.op = "list_products" => Len(last.docs) <= MaxLimit

HasOid(coll, oid) == \E i \in 1..Len(coll) : coll[i]["_id"] = oid

\* C4: with the store initialized, get-product answers 404 for a malformed
\* identifier and for a well-formed identifier of no record, the two 404
\* responses have the same status, detail and body, and it answers 200 only
\* with the record whose identifier the request names.
C4Thm ==
    /\ \A id \in IdInputs :
          LET r == get_product(id)
          IN  /\ ~OidIsValid(id) => r.status = 404
              /\ OidIsValid(id) /\ ~HasOid(product, OidValue(id)) => r.status = 404
              /\ r.status \in {200, 404}
              /\ r.status = 200 =>
                    /\ OidIsValid(id) /\ HasOid(product, OidValue(id))
                    /\ r.doc = serialize_doc(find_one(product, OidValue(id)))
    /\ Cardinality({ [detail |-> get_product(id).detail, doc |-> get_product(id).doc,
                       docs |-> get_product(id).docs] :
                         id \in {x \in IdInputs : get_product(x).status = 404} }) <= 1
    /\ last.op = "get_product" =>
          /\ last.status = 404 => last.detail = "Product not found" /\ last.doc = NoDoc
          /\ last.status = 200 =>
                /\ OidIsValid(last.arg) /\ HasOid(product, OidValue(last.arg))
                /\ last.doc = serialize_doc(find_one(product, OidValue(last.arg)))

C4Witness ==
    /\ Len(product) > 0
    /\ last.op = "get_product" /\ last.status = 404
    /\ ~OidIsValid(last.arg) /\ Len(last.arg) > 0
    /\ \E id \in IdInputs :
          OidIsValid(id) /\ ~HasOid(product, OidValue(id)) /\ get_product(id).status = 404

NegativePrice(body) == Has(body, "price") /\ body["price"] < 0

C5State ==
    /\ last.op = "create_product" /\ NegativePrice(last.arg) =>
          last.status = 422 /\ last.ops = 0
    /\ \A i \in 1..Len(product) : product[i]["price"] >= 0
    /\ \A c \in Clients : req[c].pc = "created" /\ req[c].coll = "product" =>
          ~NegativePrice(req[c].body)

C5Step ==
    last' # last /\ last'.op = "create_product" /\ NegativePrice(last'.arg) =>
        UNCHANGED <<product, order, nextOid, req>>

\* C5: a create-product payload with price < 0 is answered 422 without any
\* store call, and the request leaves both collections as they were.
C5Thm == []C5State /\ [][C5Step]_vars

C5Witness ==
    /\ last.op = "create_product" /\ last.arg = NegativePriceBody
    /\ last.status = 422
    /\ Len(product) > 0

StoreHandlers == {"list_products", "get_product", "create_product", "create_order"}

StatusKeys ==
    {"backend", "database", "database_url", "database_name",
     "connection_status", "collections"}

C7State ==
    /\ last.op = "test_database" =>
          /\ last.status = 200
          /\ DOMAIN last.doc = StatusKeys
          /\ last.doc.backend = "Running"
          /\ last.doc.database \in
                {"Database not initialized", "Connected & Working", StoreErrorStatus}
    /\ LET r == test_database
       IN  /\ r.status = 200
           /\ db = "None" => r.doc.database = "Database not initialized"
           /\ db # "None" /\ storeUp =>
                 /\ r.doc.database = "Connected & Working"
                 /\ r.doc.collections = list_collection_names
           /\ db # "None" /\ ~storeUp =>
                 /\ r.doc.database = StoreErrorStatus
                 /\ r.doc.connection_status = "Not Connected"
                 /\ r.doc.collections = <<>>

C7Step ==
    last' # last /\ last'.op = "test_database" =>
        UNCHANGED <<db, storeUp, environ, product, order, nextOid, req>>

\* C7: in every store condition the diagnostics endpoint answers 200 with a
\* status object; a failing probe shows as the "database" status string and
\* is not propagated, and the request changes nothing in the store.
C7Thm == []C7State /\ [][C7Step]_vars

C7Witness ==
    /\ last.op = "test_database" /\ last.status = 200
    /\ last.doc.database = StoreErrorStatus
    /\ Len(product) > 0

SamePresence(e1, e2) ==
    /\ (e1.DATABASE_URL = None) <=> (e2.DATABASE_URL = None)
    /\ (e1.DATABASE_NAME = None) <=> (e2.DATABASE_NAME = None)

\* C8: a diagnostics response is the same in a second run with the same
\* store state whose environment sets the same variables to other values.
C8Claim ==
    last.op = "test_database" /\ last.doc = StatusObject(environ) =>
       \A e2 \in Environs :
          SamePresence(environ, e2) => StatusObject(e2) = last.doc

\* C9: every product record in the store has stock >= 0.
C9Claim == \A i \in 1..Len(product) : product[i]["stock"] >= 0

\* C10: every order record in the store has a non-empty items list.
C10Claim == \A i \in 1..Len(order) : Len(order[i]["items"]) >= 1
====
